---- MODULE Spec2Model ----
(***************************************************************************)
(* Model of the quiz session of src/app/page.tsx: the reducer quizReducer, *)
(* the component state of VocabularyQuiz (remainingTime, the interval      *)
(* timer of the answering countdown, the reveal timeouts) and the          *)
(* useEffect hooks that create and clear those timers.                     *)
(*                                                                         *)
(* One action is one event handler or timer callback together with the     *)
(* re-render and the effect flush it causes (cleanups of the effects whose *)
(* dependencies changed, then their bodies, then the dispatches the bodies *)
(* queued).  Time passes in steps of TICK_MS, the period of the interval.  *)
(***************************************************************************)
EXTENDS Integers, Sequences, FiniteSets, TLC

\* ---------------------------------------------------------------- constants

\* useState(5000) / setRemainingTime(5000): the full countdown value.
FULL_TIME == 5000
\* setInterval(..., 100): period of the answering countdown; also the
\* numerator of the decrement 100 / ((speedLevel * 5) / 5) and the
\* threshold of prevTime <= 100.
TICK_MS == 100
\* setTimeout(..., 5000) of both reveal effects.
REVEAL_MS == 5000
\* speedLevel cycles through 1..3: (speedLevel % 3) + 1.
SPEED_LEVELS == 3
\* generateRandomOptions: shuffled.slice(0, 3).
MAX_DISTRACTORS == 3

\* remainingTime is a JavaScript number; 100 / speedLevel is a fraction for
\* speedLevel 3.  The model holds remainingTime multiplied by SCALE, so that
\* every decrement TICK_MS * SCALE / speedLevel is an integer.
SCALE == 6

\* Largest number of questions of a loaded dataset.
MaxQuestions == 2

\* Largest number of questions of a list given to the option synthesis alone.
MaxWords == 5

\* While only timeouts are pending (no interval is live) nothing happens between
\* two clock steps, so the clock then moves by up to MaxStep steps of TICK_MS
\* at once: user events fall on these instants of a reveal window.
MaxStep == 25

Null == "null"

\* ------------------------------------------------------------------ datasets

\* The word of the i-th question of a dataset (1-based position).
WordOf(i) == <<"w1", "w2", "w3", "w4", "w5", "w6", "w7">>[i]

\* A question with native options: its word and one wrong choice.
NativeOptions(i) == <<WordOf(i), "zz">>

\* Every string an option button can carry.
Choices == { WordOf(i) : i \in 1..7 } \cup {"zz"}

\* type Question: only word and options take part in the session logic.
Question(i, native) ==
    [word |-> WordOf(i), options |-> IF native THEN NativeOptions(i) ELSE <<>>]

\* The datasets a user may upload: n questions with pairwise distinct words,
\* each with native options or with none.
Datasets ==
    UNION { { [i \in 1..n |-> Question(i, i \in nat)] : nat \in SUBSET (1..n) }
            : n \in 0..MaxQuestions }

\* ------------------------------------------------------------- pure helpers

RECURSIVE Perms(_)
\* All orderings of the elements of the set S, as sequences.
Perms(S) ==
    IF S = {} THEN {<<>>}
    ELSE UNION { { <<x>> \o p : p \in Perms(S \ {x}) } : x \in S }

Range(f) == { f[i] : i \in DOMAIN f }

Min(a, b) == IF a < b THEN a ELSE b

\* shuffleArray: Fisher-Yates with Math.random; any ordering of the same
\* positions can result.
shuffleArray(array) ==
    { [i \in 1..Len(array) |-> array[p[i]]] : p \in Perms(1..Len(array)) }

\* The words of all questions, own word included, in a random order, cut to
\* three.
generateRandomOptions_NoFilter(correctAnswer, allQuestions) ==
    { [k \in 1..Min(MAX_DISTRACTORS, Len(p)) |-> allQuestions[p[k]].word]
      : p \in Perms(1..Len(allQuestions)) }

\* generateRandomOptions: the words of the questions whose word differs from
\* correctAnswer, in an order decided by a random comparator, cut to three.
generateRandomOptions(correctAnswer, allQuestions) ==
    LET idx == { i \in 1..Len(allQuestions) : allQuestions[i].word # correctAnswer }
    IN  { [k \in 1..Min(MAX_DISTRACTORS, Len(p)) |-> allQuestions[p[k]].word]
          : p \in Perms(idx) }

\* The callback of the map of the synthesis effect:
\* q => ({...q, options: [q.word, ...generateRandomOptions(q.word, questions)]});
\* the set of questions it can return.
SynthOne(q, qs) ==
    { [word |-> q.word, options |-> <<q.word>> \o d]
      : d \in generateRandomOptions(q.word, qs) }

RECURSIVE SynthAll(_, _, _)
\* state.questions.map(...): the set of question lists the map can produce
\* (questions from position i on).
SynthAll(qs, i, acc) ==
    IF i > Len(qs) THEN {acc}
    ELSE UNION { SynthAll(qs, i + 1, Append(acc, r)) : r \in SynthOne(qs[i], qs) }

\* ------------------------------------------------------------------ reducer

initialState ==
    [questions |-> <<>>,
     currentQuestionIndex |-> 0,
     userAnswers |-> <<>>,
     score |-> 0,
     quizCompleted |-> FALSE,
     currentAnswer |-> Null,
     isCorrect |-> Null,
     shuffledOptions |-> <<>>,
     fixedOptions |-> <<>>,
     isPaused |-> FALSE,
     speedLevel |-> 1,
     showingAnswer |-> FALSE]

\* state.questions[state.currentQuestionIndex] (0-based index); Null stands
\* for undefined.
HasCurrent(s) == s.currentQuestionIndex < Len(s.questions)
CurrentQuestion(s) == s.questions[s.currentQuestionIndex + 1]

BoolStr(b) == IF b THEN "true" ELSE "false"

SET_QUESTIONS(s, payload) == [initialState EXCEPT !.questions = payload]

ANSWER_QUESTION(s, payload) ==
    [s EXCEPT !.userAnswers = Append(@, payload),
              !.score = IF payload = CurrentQuestion(s).word THEN @ + 1 ELSE @]

SET_CURRENT_ANSWER(s, payload) ==
    [s EXCEPT !.currentAnswer = payload, !.showingAnswer = TRUE]

CHECK_ANSWER(s) ==
    [s EXCEPT !.isCorrect = BoolStr(s.currentAnswer = CurrentQuestion(s).word)]

\* NEXT_QUESTION without the reset of showingAnswer.
NEXT_QUESTION_KeepsShowing(s) ==
    [s EXCEPT !.currentQuestionIndex = @ + 1,
              !.quizCompleted = (s.currentQuestionIndex = Len(s.questions) - 1),
              !.currentAnswer = Null,
              !.isCorrect = Null,
              !.fixedOptions = <<>>]

NEXT_QUESTION(s) ==
    [s EXCEPT !.currentQuestionIndex = @ + 1,
              !.quizCompleted = (s.currentQuestionIndex = Len(s.questions) - 1),
              !.currentAnswer = Null,
              !.isCorrect = Null,
              !.fixedOptions = <<>>,
              !.showingAnswer = FALSE]

\* A reset that keeps the pause.
RESET_QUIZ_KeepsPause(s) ==
    [initialState EXCEPT !.questions = s.questions, !.isPaused = s.isPaused]

RESET_QUIZ(s) == [initialState EXCEPT !.questions = s.questions]

SET_FIXED_OPTIONS(s, payload) == [s EXCEPT !.fixedOptions = payload]

TOGGLE_PAUSE(s) == [s EXCEPT !.isPaused = ~@]

SET_SPEED_LEVEL(s, payload) == [s EXCEPT !.speedLevel = payload]

\* ------------------------------------------------------- component state

VARIABLES
    dataset,        \* useState<Dataset | null>: TRUE once a dataset was loaded
    state,          \* useReducer(quizReducer, initialState)
    remainingTime,  \* useState(5000), multiplied by SCALE
    timer,          \* the interval created by the countdown effect
    revealTimer,    \* the timeout created by the reveal effect (lines 194-219)
    pauseTimer,     \* the timeout created by the pause-change effect (lines 222-239)
    answerTimer,    \* useState answerTimer: which timeout was stored last
    crashed,        \* the render threw: the component is unmounted
    sinceResume,    \* observer: clock steps since the reveal phase was last
                    \* resumed from a pause, -1 when it was not
    ticks           \* observer: interval callbacks run since the current
                    \* question became current, -1 once the session was
                    \* paused or speedLevel changed in its answering phase

vars == <<dataset, state, remainingTime, timer, revealTimer, pauseTimer,
          answerTimer, crashed, sinceResume, ticks>>

\* A cleared (or never created) interval, and a live one.  word and speed are
\* what the callback's closure captured; q is the question it was created for.
NoInterval == [live |-> FALSE, word |-> Null, speed |-> 0, q |-> 0]
NewInterval(s) ==
    [live |-> TRUE, word |-> CurrentQuestion(s).word, speed |-> s.speedLevel,
     q |-> s.currentQuestionIndex]

\* Number of clock steps of TICK_MS after which a reveal timeout is due.
RevealTicks == REVEAL_MS \div TICK_MS

\* A cleared (or fired) timeout, and a fresh one: left is the number of clock
\* steps until it is due, q the question during whose reveal it was created.
NoTimeout == [live |-> FALSE, left |-> 0, q |-> 0]

\* NewTimeout with the delay of one second that the reveal timeout had before
\* it was changed to five.
NewTimeout_OneSecond(s) ==
    [live |-> TRUE, left |-> 1000 \div TICK_MS, q |-> s.currentQuestionIndex]

NewTimeout(s) == [live |-> TRUE, left |-> RevealTicks, q |-> s.currentQuestionIndex]

\* The component as one value, for the operators below.
Comp ==
    [state |-> state, remainingTime |-> remainingTime, timer |-> timer,
     revealTimer |-> revealTimer, pauseTimer |-> pauseTimer,
     answerTimer |-> answerTimer, crashed |-> crashed]

\* clearTimeout(id) where id is the timeout named by an answerTimer value.
ClearTimeout(c, id) ==
    [c EXCEPT !.revealTimer = IF id = "reveal" THEN NoTimeout ELSE @,
              !.pauseTimer = IF id = "pause" THEN NoTimeout ELSE @]

\* ------------------------------------------------------------------ effects
\* p is the reducer state of the previous commit, s the state just rendered;
\* replaced tells that state.questions is a new array (SET_QUESTIONS).

\* An effect without dependency array runs after every render.
QuestionChanged_Always(p, s, replaced) == TRUE

\* The dependency currentQuestion changed (object identity).
QuestionChanged(p, s, replaced) ==
    \/ replaced /\ (HasCurrent(p) \/ HasCurrent(s))
    \/ HasCurrent(p) # HasCurrent(s)
    \/ HasCurrent(s) /\ p.currentQuestionIndex # s.currentQuestionIndex

\* A dependency array without state.speedLevel.
CountdownDeps_NoSpeed(p, s, replaced) ==
    \/ QuestionChanged(p, s, replaced)
    \/ p.isPaused # s.isPaused
    \/ p.currentAnswer # s.currentAnswer

\* [currentQuestion, state.isPaused, state.currentAnswer, state.speedLevel]
CountdownDeps(p, s, replaced) ==
    \/ QuestionChanged(p, s, replaced)
    \/ p.isPaused # s.isPaused
    \/ p.currentAnswer # s.currentAnswer
    \/ p.speedLevel # s.speedLevel

\* [state.currentAnswer, state.quizCompleted, state.showingAnswer, state.isPaused]
RevealDeps(p, s) ==
    \/ p.currentAnswer # s.currentAnswer
    \/ p.quizCompleted # s.quizCompleted
    \/ p.showingAnswer # s.showingAnswer
    \/ p.isPaused # s.isPaused

\* [state.isPaused]
PauseDeps(p, s) == p.isPaused # s.isPaused

\* [currentQuestion, state.questions]
SynthDeps(p, s, replaced) == replaced \/ QuestionChanged(p, s, replaced)

\* The cleanup functions of the effects whose dependencies changed:
\* clearInterval(newTimer), clearTimeout(nextQuestionTimer) (twice).
Cleanups(p, c, replaced) ==
    [c EXCEPT !.timer = IF CountdownDeps(p, c.state, replaced) THEN NoInterval ELSE @,
              !.revealTimer = IF RevealDeps(p, c.state) THEN NoTimeout ELSE @,
              !.pauseTimer = IF PauseDeps(p, c.state) THEN NoTimeout ELSE @]

\* Lines 151-157: shuffle the options of the new current question and restart
\* remainingTime.  The set of components the random shuffle can produce.
ShuffleEffect(c) ==
    IF HasCurrent(c.state) /\ Len(CurrentQuestion(c.state).options) > 0
    THEN { [c EXCEPT !.state = SET_FIXED_OPTIONS(@, f),
                     !.remainingTime = FULL_TIME * SCALE]
           : f \in shuffleArray(CurrentQuestion(c.state).options) }
    ELSE {c}

\* CountdownEffect without the test of isPaused.
CountdownEffect_IgnoresPause(c) ==
    IF HasCurrent(c.state) /\ c.state.currentAnswer = Null
    THEN [c EXCEPT !.timer = NewInterval(c.state)]
    ELSE c

\* CountdownEffect that starts every new interval at the full duration.
CountdownEffect_Restarts(c) ==
    IF HasCurrent(c.state) /\ ~c.state.isPaused /\ c.state.currentAnswer = Null
    THEN [c EXCEPT !.timer = NewInterval(c.state),
                   !.remainingTime = FULL_TIME * SCALE]
    ELSE IF c.state.isPaused /\ c.timer.live
    THEN [c EXCEPT !.timer = NoInterval]
    ELSE c

\* Lines 160-180: the answering countdown.
CountdownEffect(c) ==
    IF HasCurrent(c.state) /\ ~c.state.isPaused /\ c.state.currentAnswer = Null
    THEN [c EXCEPT !.timer = NewInterval(c.state)]
    ELSE IF c.state.isPaused /\ c.timer.live
    THEN [c EXCEPT !.timer = NoInterval]
    ELSE c

\* Lines 194-219: the reveal timer.  at is the answerTimer of the render the
\* effect belongs to.
RevealEffect(c, at) ==
    IF c.state.currentAnswer # Null /\ ~c.state.quizCompleted /\ c.state.showingAnswer
    THEN LET c1 == ClearTimeout(c, at)
         IN  IF ~c.state.isPaused
             THEN [c1 EXCEPT !.revealTimer = NewTimeout(c.state),
                             !.answerTimer = "reveal"]
             ELSE c1
    ELSE c

\* Lines 222-239: the reveal timer on a change of isPaused.
PauseEffect(c, at) ==
    IF c.state.currentAnswer # Null /\ c.state.showingAnswer
    THEN IF c.state.isPaused
         THEN ClearTimeout(c, at)
         ELSE [c EXCEPT !.pauseTimer = NewTimeout(c.state),
                        !.answerTimer = "pause"]
    ELSE c

\* Lines 183-191: the current question has no options.
NeedsSynthesis(s) == HasCurrent(s) /\ Len(CurrentQuestion(s).options) = 0

RECURSIVE Flush(_, _, _)
\* The effect flush after a commit: cleanups, then the bodies of the effects
\* whose dependencies changed, in the order of the source; then the
\* SET_QUESTIONS the synthesis effect dispatched, rendered and flushed in turn.
\* The set of components that can result.
Flush(p, c, replaced) ==
    LET s == c.state
        at == c.answerTimer
        c0 == Cleanups(p, c, replaced)
        S1 == IF QuestionChanged(p, s, replaced) THEN ShuffleEffect(c0) ELSE {c0}
        E2(x) == IF CountdownDeps(p, s, replaced) THEN CountdownEffect(x) ELSE x
        E3(x) == IF RevealDeps(p, s) THEN RevealEffect(x, at) ELSE x
        E4(x) == IF PauseDeps(p, s) THEN PauseEffect(x, at) ELSE x
        S4 == { E4(E3(E2(x))) : x \in S1 }
    IN  IF SynthDeps(p, s, replaced) /\ NeedsSynthesis(s)
        THEN UNION { UNION { Flush(x.state, [x EXCEPT !.state = SET_QUESTIONS(@, nq)], TRUE)
                             : nq \in SynthAll(s.questions, 1, <<>>) }
                     : x \in S4 }
        ELSE S4

\* The render of lines 375-384 reads currentQuestion.question whenever
\* quizCompleted is false: it throws when there is no current question.
RenderThrows(s) == ~s.quizCompleted /\ ~HasCurrent(s)

\* The component after an uncaught render error: unmounted, every effect
\* cleaned up.
Unmounted(c) ==
    [c EXCEPT !.timer = NoInterval, !.revealTimer = NoTimeout,
              !.pauseTimer = NoTimeout, !.crashed = TRUE]

\* Render of the component c after the reducer state p, and what follows.
Commit(p, c, replaced) ==
    IF RenderThrows(c.state) THEN {Unmounted(c)} ELSE Flush(p, c, replaced)

\* The step to one of the components in R.
Becomes(R) ==
    \E r \in R :
        /\ state' = r.state
        /\ remainingTime' = r.remainingTime
        /\ timer' = r.timer
        /\ revealTimer' = r.revealTimer
        /\ pauseTimer' = r.pauseTimer
        /\ answerTimer' = r.answerTimer
        /\ crashed' = r.crashed

\* The page is mounted with a dataset and has not crashed.
Mounted == dataset /\ ~crashed

\* The step made a question current: the first one, another index, or the
\* question of a replaced list.
Activated ==
    /\ HasCurrent(state')
    /\ \/ ~HasCurrent(state)
       \/ state'.currentQuestionIndex # state.currentQuestionIndex
       \/ state'.questions # state.questions

\* The observers after a step that took n clock steps; resumed tells that the
\* step was a resume.  sinceResume runs only while an answer is shown and the
\* session is not paused; ticks runs in the answering phase of a question as
\* long as the session was never paused and speedLevel never changed in it.
Observe(resumed, n) ==
    /\ sinceResume' =
          IF state'.currentAnswer = Null \/ state'.isPaused \/ crashed' THEN -1
          ELSE IF resumed THEN 0
          ELSE IF sinceResume >= 0 THEN Min(RevealTicks, sinceResume + n)
          ELSE -1
    /\ ticks' =
          IF crashed' \/ ~HasCurrent(state') \/ state'.currentAnswer # Null
             \/ state'.isPaused THEN -1
          ELSE IF Activated THEN 0
          ELSE IF ticks < 0 \/ state'.speedLevel # state.speedLevel THEN -1
          ELSE IF timer.live THEN ticks + n
          ELSE ticks

\* ------------------------------------------------------------------- actions

Init ==
    /\ dataset = FALSE
    /\ state = initialState
    /\ remainingTime = FULL_TIME * SCALE
    /\ timer = NoInterval
    /\ revealTimer = NoTimeout
    /\ pauseTimer = NoTimeout
    /\ answerTimer = "none"
    /\ crashed = FALSE
    /\ sinceResume = -1
    /\ ticks = -1

\* handleFileUpload / reader.onload: setDataset and SET_QUESTIONS.  The upload
\* input is rendered only while dataset is null.
handleFileUpload(vocabulary) ==
    /\ ~dataset /\ ~crashed
    /\ dataset' = TRUE
    /\ Becomes(Commit(state, [Comp EXCEPT !.state = SET_QUESTIONS(@, vocabulary)], TRUE))
    /\ Observe(FALSE, 0)

\* handleAnswer without the dispatch of CHECK_ANSWER.
handleAnswer_NoCheck(c, answer) ==
    [c EXCEPT !.timer = NoInterval,
              !.state = SET_CURRENT_ANSWER(@, answer)]

\* handleAnswer(answer): clearInterval(timer), SET_CURRENT_ANSWER, CHECK_ANSWER.
handleAnswer(c, answer) ==
    [c EXCEPT !.timer = NoInterval,
              !.state = CHECK_ANSWER(SET_CURRENT_ANSWER(@, answer))]

\* Option buttons that are never disabled.
OptionDisabled_Never(s) == FALSE

\* disabled={state.currentAnswer !== null} of the option buttons.
OptionDisabled(s) == s.currentAnswer # Null

\* A click on an option button: one button per entry of fixedOptions, rendered
\* while the quiz is not completed, disabled once currentAnswer is set.
SelectAnswer(option) ==
    /\ Mounted
    /\ ~state.quizCompleted
    /\ ~OptionDisabled(state)
    /\ option \in Range(state.fixedOptions)
    /\ Becomes(Commit(state, handleAnswer(Comp, option), FALSE))
    /\ Observe(FALSE, 0)
    /\ UNCHANGED dataset

\* togglePause
togglePause ==
    /\ Mounted
    /\ Becomes(Commit(state, [Comp EXCEPT !.state = TOGGLE_PAUSE(@)], FALSE))
    /\ Observe(state.isPaused, 0)
    /\ UNCHANGED dataset

\* toggleSpeedLevel
toggleSpeedLevel ==
    /\ Mounted
    /\ LET nextLevel == (state.speedLevel % SPEED_LEVELS) + 1
       IN  Becomes(Commit(state, [Comp EXCEPT !.state = SET_SPEED_LEVEL(@, nextLevel)], FALSE))
    /\ Observe(FALSE, 0)
    /\ UNCHANGED dataset

\* handleNextQuestion: clearTimeout(answerTimer), NEXT_QUESTION.
handleNextQuestion(c) ==
    [ClearTimeout(c, c.answerTimer) EXCEPT !.state = NEXT_QUESTION(@)]

\* A click on the skip button, disabled once the quiz is completed.
SkipQuestion ==
    /\ Mounted
    /\ ~state.quizCompleted
    /\ Becomes(Commit(state, handleNextQuestion(Comp), FALSE))
    /\ Observe(FALSE, 0)
    /\ UNCHANGED dataset

\* resetQuiz: the restart button is rendered only when the quiz is completed.
resetQuiz ==
    /\ Mounted
    /\ state.quizCompleted
    /\ Becomes(Commit(state, [Comp EXCEPT !.state = RESET_QUIZ(@)], FALSE))
    /\ Observe(FALSE, 0)
    /\ UNCHANGED dataset

\* A timeout is due.
Due(t) == t.live /\ t.left = 0

\* A pending timeout after n clock steps.
Older(t, n) == IF t.live THEN [t EXCEPT !.left = @ - n] ELSE t

\* The number of clock steps until the next timer event, at most MaxStep: one
\* step while the interval is live, otherwise up to the earliest pending timeout.
StepLength ==
    LET a == IF revealTimer.live THEN revealTimer.left ELSE MaxStep
        b == IF pauseTimer.live THEN pauseTimer.left ELSE MaxStep
    IN  IF timer.live THEN 1 ELSE Min(MaxStep, Min(a, b))

\* The interval callback: setRemainingTime(prevTime => ...).
IntervalCallback(c) ==
    IF c.remainingTime <= TICK_MS * SCALE
    THEN [handleAnswer(c, c.timer.word) EXCEPT !.remainingTime = 0]
    ELSE [c EXCEPT !.remainingTime = @ - (TICK_MS * SCALE) \div c.timer.speed]

\* Time passes (StepLength steps of TICK_MS): pending timeouts come closer, a
\* live interval fires.
\* Timeouts that are due fire before more time passes.
Elapse ==
    /\ Mounted
    /\ timer.live \/ revealTimer.live \/ pauseTimer.live
    /\ ~Due(revealTimer) /\ ~Due(pauseTimer)
    /\ LET c1 == [Comp EXCEPT !.revealTimer = Older(@, StepLength),
                               !.pauseTimer = Older(@, StepLength)]
       IN  Becomes(Commit(state, IF timer.live THEN IntervalCallback(c1) ELSE c1, FALSE))
    /\ Observe(FALSE, StepLength)
    /\ UNCHANGED dataset

\* The callback of the reveal effect's timeout: dispatch NEXT_QUESTION.  It
\* was created before the pause-change effect's timeout and fires first.
RevealTimeout ==
    /\ Mounted
    /\ Due(revealTimer)
    /\ Becomes(Commit(state, [Comp EXCEPT !.revealTimer = NoTimeout,
                                          !.state = NEXT_QUESTION(@)], FALSE))
    /\ Observe(FALSE, 0)
    /\ UNCHANGED dataset

\* The callback of the pause-change effect's timeout: dispatch NEXT_QUESTION.
PauseTimeout ==
    /\ Mounted
    /\ Due(pauseTimer)
    /\ ~Due(revealTimer)
    /\ Becomes(Commit(state, [Comp EXCEPT !.pauseTimer = NoTimeout,
                                          !.state = NEXT_QUESTION(@)], FALSE))
    /\ Observe(FALSE, 0)
    /\ UNCHANGED dataset

Next ==
    \/ \E vocabulary \in Datasets : handleFileUpload(vocabulary)
    \/ \E option \in Choices : SelectAnswer(option)
    \/ togglePause
    \/ toggleSpeedLevel
    \/ SkipQuestion
    \/ resetQuiz
    \/ Elapse
    \/ RevealTimeout
    \/ PauseTimeout

Spec == Init /\ [][Next]_vars

\* ---------------------------------------------- the option synthesis alone
\* The map callback of the synthesis effect applied to one question of a list
\* of up to MaxWords questions.

\* The lists given to the synthesis: n questions with pairwise distinct words,
\* each with native options or with none.
SynthInputs ==
    UNION { { [i \in 1..n |-> Question(i, i \in nat)] : nat \in SUBSET (1..n) }
            : n \in 1..MaxWords }

\* The options of question i of the list are as they were loaded.
AsLoaded(qs, i) == qs[i].options \in {<<>>, NativeOptions(i)}

SynthInit ==
    /\ dataset = TRUE
    /\ state \in { SET_QUESTIONS(initialState, qs) : qs \in SynthInputs }
    /\ remainingTime = FULL_TIME * SCALE
    /\ timer = NoInterval
    /\ revealTimer = NoTimeout
    /\ pauseTimer = NoTimeout
    /\ answerTimer = "none"
    /\ crashed = FALSE
    /\ sinceResume = -1
    /\ ticks = -1

\* The map callback runs for question i, whose options are empty, with the
\* list as it was loaded.
SynthStep(i) ==
    /\ i \in 1..Len(state.questions)
    /\ \A j \in 1..Len(state.questions) : AsLoaded(state.questions, j)
    /\ state.questions[i].options = <<>>
    /\ \E r \in SynthOne(state.questions[i], state.questions) :
          state' = [state EXCEPT !.questions[i] = r]
    /\ UNCHANGED <<dataset, remainingTime, timer, revealTimer, pauseTimer,
                   answerTimer, crashed, sinceResume, ticks>>

SynthNext == \E i \in 1..MaxWords : SynthStep(i)

SynthSpec == SynthInit /\ [][SynthNext]_vars

\* ------------------------------------------------------------------- claims

\* The step submits an answer: a click on an option, or the interval callback
\* at the end of the countdown.
Submission ==
    \/ \E option \in Range(state.fixedOptions) : SelectAnswer(option)
    \/ Elapse /\ timer.live /\ remainingTime <= TICK_MS * SCALE

\* The step is the interval callback at the end of the countdown.
AnsweringTimeout == Elapse /\ timer.live /\ remainingTime <= TICK_MS * SCALE

\* The step is an Advance: the skip button or the callback of a reveal timeout.
Advance == SkipQuestion \/ RevealTimeout \/ PauseTimeout

\* C1: every answer submission (a click on an option or the timeout of the
\* answering countdown) appends the submitted value to userAnswers and adds
\* one to score exactly when the value is the word of the current question.
C1_SubmissionIsRecorded ==
    [][Submission =>
        /\ state'.userAnswers = Append(state.userAnswers, state'.currentAnswer)
        /\ state'.score = state.score
              + (IF state'.currentAnswer = CurrentQuestion(state).word THEN 1 ELSE 0)]_vars

\* C2: when the answering countdown of question i runs out with no answer
\* selected, the word of question i is submitted: afterwards currentAnswer is
\* that word, isCorrect is true and score is one greater than before.
C2_TimeoutScoresCorrect ==
    [][AnsweringTimeout /\ state.currentAnswer = Null =>
        /\ state'.currentAnswer = CurrentQuestion(state).word
        /\ state'.isCorrect = "true"
        /\ state'.score = state.score + 1]_vars

\* The part of C2 that does not read score: the timeout selects the word of
\* the current question and marks it correct, and score does not go down.
C2_TimeoutSelectsWord ==
    [][AnsweringTimeout /\ state.currentAnswer = Null =>
        /\ state'.currentAnswer = CurrentQuestion(state).word
        /\ state'.isCorrect = "true"
        /\ state'.score >= state.score]_vars

\* C3: an Advance at the last index sets quizCompleted; an Advance applied
\* while quizCompleted is true, from the skip button or from a timer callback,
\* leaves the session state unchanged.
C3_AdvanceWhenCompletedIsNoOp ==
    [][Advance =>
        IF state.quizCompleted THEN state' = state
        ELSE (state.currentQuestionIndex = Len(state.questions) - 1
                  => state'.quizCompleted)]_vars

\* The session states a click on the skip button can produce now.
AfterSkip == { r.state : r \in Commit(state, handleNextQuestion(Comp), FALSE) }

\* The expiry of the timeout t ends the reveal phase of the question it was
\* created for, with the state a single skip would give.
EndsOwnReveal(t) ==
    /\ state.currentQuestionIndex = t.q
    /\ state.currentAnswer # Null /\ state.showingAnswer
    /\ state' \in AfterSkip
    /\ ~NeedsSynthesis(NEXT_QUESTION(state)) =>
          /\ state'.currentQuestionIndex = t.q + 1
          /\ state'.quizCompleted = (t.q = Len(state.questions) - 1)

\* C4: a reveal phase that ends by timer expiry performs exactly one Advance:
\* every reveal timeout that fires ends the reveal phase of its own question
\* and leaves the state a single skip would have left, whatever pauses and
\* resumes came before.
C4_RevealExpiryAdvancesOnce ==
    [][/\ RevealTimeout => EndsOwnReveal(revealTimer)
       /\ PauseTimeout => EndsOwnReveal(pauseTimer)]_vars

\* Number of live timed triggers.
LiveTriggers ==
    (IF timer.live THEN 1 ELSE 0) + (IF revealTimer.live THEN 1 ELSE 0)
        + (IF pauseTimer.live THEN 1 ELSE 0)

\* The timeout t belongs to the reveal phase of the current question.
OwnReveal(t) ==
    /\ t.q = state.currentQuestionIndex
    /\ state.currentAnswer # Null /\ ~state.quizCompleted /\ ~state.isPaused

\* C5: no stale callback can act: at every moment at most one timed trigger
\* is live, a live interval belongs to the answering phase of the current
\* question and a live reveal timeout to its reveal phase.
C5_OneLiveTrigger ==
    /\ LiveTriggers <= 1
    /\ timer.live =>
          /\ timer.q = state.currentQuestionIndex
          /\ state.currentAnswer = Null /\ ~state.isPaused
    /\ revealTimer.live => OwnReveal(revealTimer)
    /\ pauseTimer.live => OwnReveal(pauseTimer)

\* C6: after a pause during the reveal phase and a resume, no reveal timeout
\* fires before RevealTicks clock steps (REVEAL_MS) have passed since the
\* resume; none fires at the instant of the resume.
C6_FullWindowAfterResume ==
    [][(RevealTimeout \/ PauseTimeout) /\ sinceResume >= 0
          => sinceResume >= RevealTicks]_vars

\* A reveal phase that was paused part-way, resumed, and whose timeout is now
\* due, a full window after the resume.
C6_Witness ==
    /\ sinceResume = RevealTicks
    /\ Due(revealTimer) /\ Due(pauseTimer)
    /\ state.currentAnswer # Null /\ ~state.isPaused

\* C7: with questions loaded, 0 <= currentQuestionIndex <= len(questions) in
\* every reachable state, and currentQuestionIndex = len(questions) only when
\* quizCompleted is true.
C7_IndexInRange ==
    Len(state.questions) > 0 =>
        /\ 0 <= state.currentQuestionIndex
        /\ state.currentQuestionIndex <= Len(state.questions)
        /\ state.currentQuestionIndex = Len(state.questions) => state.quizCompleted

\* C8: while isPaused is true no time-driven transition happens: no interval
\* callback runs (remainingTime does not go down, no timeout submits an
\* answer) and no reveal timeout performs an Advance.
C8_PausedFreezesTime ==
    [][state.isPaused =>
        /\ ~(Elapse /\ timer.live)
        /\ ~RevealTimeout
        /\ ~PauseTimeout
        /\ remainingTime' >= remainingTime
        /\ state.currentAnswer = Null /\ state'.currentAnswer # Null
              => \E option \in Range(state.fixedOptions) : SelectAnswer(option)]_vars

\* The session is paused in the reveal phase, after part of the countdown.
C8_Witness ==
    /\ Mounted /\ state.isPaused
    /\ state.currentAnswer # Null /\ state.showingAnswer
    /\ 0 < remainingTime /\ remainingTime < FULL_TIME * SCALE

\* The session after a crash or with questions shown has a pending trigger
\* unless it is paused or completed.
Advanceable ==
    dataset /\ Len(state.questions) > 0 /\ ~state.quizCompleted /\ ~state.isPaused
        => LiveTriggers >= 1

\* C9: after the Load of a non-empty question list the quiz never stalls in a
\* state that is neither completed nor paused and has no pending timed trigger,
\* and once quizCompleted is true it stays true until Reset.
C9_NeverStallsStaysCompleted ==
    /\ []Advanceable
    /\ [][state.quizCompleted /\ ~resetQuiz => state'.quizCompleted]_vars

\* C10: a step taken while an answer is selected for the current question
\* never selects again: as long as currentAnswer stays set, currentAnswer,
\* isCorrect, userAnswers and score keep the values of the first selection.
C10_SecondSelectionIsNoOp ==
    [][state.currentAnswer # Null /\ state'.currentAnswer # Null =>
        /\ state'.currentAnswer = state.currentAnswer
        /\ state'.isCorrect = state.isCorrect
        /\ state'.userAnswers = state.userAnswers
        /\ state'.score = state.score]_vars

\* An answer is selected and the options still show a different choice that a
\* second click could name; time has passed since the selection.
C10_Witness ==
    /\ Mounted /\ ~state.quizCompleted
    /\ state.currentAnswer # Null
    /\ \E option \in Range(state.fixedOptions) : option # state.currentAnswer
    /\ revealTimer.live /\ revealTimer.left < RevealTicks

\* C11: the Load of an empty question list yields quizCompleted = TRUE and
\* score = 0 at once, and the page never enters the answering phase: no
\* countdown runs and no current question is dereferenced (the render does not
\* throw).
C11_EmptyLoadCompletes ==
    dataset /\ Len(state.questions) = 0 =>
        /\ state.quizCompleted
        /\ state.score = 0
        /\ ~timer.live
        /\ ~crashed

\* C12: an Advance at a question that is not the last one increments
\* currentQuestionIndex by exactly one, clears currentAnswer, isCorrect and
\* showingAnswer, and leaves score, userAnswers, isPaused and speedLevel
\* unchanged, also when the options of the new current question are
\* synthesized.
C12_AdvanceOnlyMovesIndex ==
    [][Advance /\ ~state.quizCompleted
              /\ state.currentQuestionIndex < Len(state.questions) - 1 =>
        /\ state'.currentQuestionIndex = state.currentQuestionIndex + 1
        /\ state'.currentAnswer = Null
        /\ state'.isCorrect = Null
        /\ ~state'.showingAnswer
        /\ ~state'.quizCompleted
        /\ state'.score = state.score
        /\ state'.userAnswers = state.userAnswers
        /\ state'.isPaused = state.isPaused
        /\ state'.speedLevel = state.speedLevel]_vars

\* C13: with speedLevel held at n and the session never paused, the interval
\* callback that submits the timeout answer is callback number
\* n * FULL_TIME / TICK_MS since the question became current (n * 5000 ms).
C13_TimeoutAfterFullDuration ==
    [][AnsweringTimeout /\ ticks >= 0 =>
          ticks + 1 = state.speedLevel * (FULL_TIME \div TICK_MS)]_vars

\* C14: a press of the speed button leaves remainingTime exactly at its value
\* and moves speedLevel along the cycle 1 -> 2 -> 3 -> 1; every later interval
\* callback that does not end the countdown subtracts TICK_MS / speedLevel for
\* the speedLevel of that moment; speedLevel is always in 1..SPEED_LEVELS.
C14_SpeedChangeKeepsRemainingTime ==
    /\ [](state.speedLevel \in 1..SPEED_LEVELS)
    /\ [][toggleSpeedLevel =>
            /\ remainingTime' = remainingTime
            /\ state'.speedLevel = (state.speedLevel % SPEED_LEVELS) + 1]_vars
    /\ [][Elapse /\ timer.live /\ remainingTime > TICK_MS * SCALE =>
            remainingTime' = remainingTime - (TICK_MS * SCALE) \div state.speedLevel]_vars

\* speedLevel was changed to 2 in the answering phase of the first question and
\* the countdown went on at the new rate: remainingTime is an odd multiple of
\* TICK_MS / 2.
C14_Witness ==
    /\ Mounted /\ timer.live
    /\ state.currentQuestionIndex = 0
    /\ state.speedLevel = 2
    /\ remainingTime % (TICK_MS * SCALE) = (TICK_MS * SCALE) \div 2

\* C15: in a list of N questions with pairwise distinct words, the options
\* synthesized for a question without native options have exactly
\* 1 + min(MAX_DISTRACTORS, N - 1) entries, hold the question's own word exactly
\* once, and every other entry is the word of another question of the list,
\* none of them twice.
C15_SynthesizedOptions ==
    \A i \in 1..Len(state.questions) :
        LET qs == state.questions
            o == qs[i].options
        IN  ~AsLoaded(qs, i) =>
              /\ Len(o) = 1 + Min(MAX_DISTRACTORS, Len(qs) - 1)
              /\ Cardinality({ k \in 1..Len(o) : o[k] = qs[i].word }) = 1
              /\ \A k \in 1..Len(o) :
                    o[k] # qs[i].word => \E j \in 1..Len(qs) : j # i /\ qs[j].word = o[k]
              /\ \A k, l \in 1..Len(o) : o[k] = o[l] => k = l

\* Options were synthesized in a list with more other words than distractors
\* are kept.
C15_Witness ==
    /\ Len(state.questions) - 1 > MAX_DISTRACTORS
    /\ \E i \in 1..Len(state.questions) :
          /\ ~AsLoaded(state.questions, i)
          /\ Len(state.questions[i].options) = 1 + MAX_DISTRACTORS

\* The page after the Load of the list qs into a freshly mounted page: the set
\* of its possible states (the order of fixedOptions is random).
AfterLoad(qs) ==
    Commit(initialState,
           [state |-> SET_QUESTIONS(initialState, qs),
            remainingTime |-> FULL_TIME * SCALE,
            timer |-> NoInterval,
            revealTimer |-> NoTimeout,
            pauseTimer |-> NoTimeout,
            answerTimer |-> "none",
            crashed |-> FALSE],
           TRUE)

\* C16: a Reset yields exactly the session state that the Load of the same
\* questions yields (reducer state, remainingTime and the interval):
\* currentQuestionIndex 0, score 0, no answers, not completed, no selected
\* answer, no isCorrect, not revealing, the questions retained, and the
\* countdown of question 0 restarted at the full duration.
C16_ResetEqualsLoad ==
    [][resetQuiz =>
        /\ state'.questions = state.questions
        /\ state'.currentQuestionIndex = 0
        /\ state'.score = 0 /\ state'.userAnswers = <<>>
        /\ ~state'.quizCompleted
        /\ state'.currentAnswer = Null /\ state'.isCorrect = Null
        /\ ~state'.showingAnswer
        /\ remainingTime' = FULL_TIME * SCALE
        /\ timer'.live
        /\ \E r \in AfterLoad(state.questions) :
              /\ state' = r.state
              /\ remainingTime' = r.remainingTime
              /\ timer' = r.timer
              /\ crashed' = r.crashed]_vars

\* The first question is current again with its countdown at the full duration
\* after an answer was shown earlier; the list has native options throughout,
\* so no synthesis has led back to it: the quiz was restarted.
C16_Witness ==
    /\ Mounted /\ timer.live
    /\ state.currentQuestionIndex = 0
    /\ remainingTime = FULL_TIME * SCALE
    /\ answerTimer # "none"
    /\ \A i \in 1..Len(state.questions) : state.questions[i].options = NativeOptions(i)

\* C17: a press of the pause button only flips isPaused: currentQuestionIndex,
\* currentAnswer, isCorrect, score, userAnswers, speedLevel, fixedOptions and
\* remainingTime keep their values.  While the session stays paused on a
\* question remainingTime does not change, and the resume in the answering
\* phase starts the interval again at the speedLevel of the state, so the
\* countdown goes on from the remainingTime of the pause.
C17_PauseOnlyFlipsIsPaused ==
    /\ [][togglePause =>
            /\ state' = [state EXCEPT !.isPaused = ~@]
            /\ remainingTime' = remainingTime]_vars
    /\ [][state.isPaused /\ state'.isPaused /\ ~Activated =>
            remainingTime' = remainingTime]_vars
    /\ [][togglePause /\ state.isPaused /\ HasCurrent(state)
                      /\ state.currentAnswer = Null =>
            /\ timer'.live
            /\ timer'.speed = state.speedLevel]_vars

\* The session is paused in the answering phase after part of the countdown.
C17_Witness ==
    /\ Mounted /\ state.isPaused
    /\ HasCurrent(state) /\ state.currentAnswer = Null
    /\ 0 < remainingTime /\ remainingTime < FULL_TIME * SCALE

\* C18: in every state left by an operation isCorrect is set exactly when
\* currentAnswer is set, and then isCorrect tells whether currentAnswer equals
\* the word of the current question.
C18_IsCorrectMatchesAnswer ==
    /\ state.isCorrect # Null <=> state.currentAnswer # Null
    /\ state.currentAnswer # Null =>
          /\ HasCurrent(state)
          /\ state.isCorrect = BoolStr(state.currentAnswer = CurrentQuestion(state).word)

\* A wrong answer is selected and marked as wrong.
C18_Witness ==
    /\ Mounted /\ HasCurrent(state)
    /\ state.currentAnswer # Null
    /\ state.currentAnswer # CurrentQuestion(state).word
    /\ state.isCorrect = BoolStr(FALSE)

\* C19: in every reachable state showingAnswer is true exactly when
\* currentAnswer is set and the quiz is not completed; a completed quiz has no
\* currentAnswer and does not show an answer.
C19_ShowingIffAnswered ==
    /\ state.showingAnswer <=> (state.currentAnswer # Null /\ ~state.quizCompleted)
    /\ state.quizCompleted => state.currentAnswer = Null /\ ~state.showingAnswer

\* The quiz is completed after an answer was shown.
C19_Witness ==
    /\ Mounted /\ state.quizCompleted
    /\ answerTimer # "none"
    /\ state.currentAnswer = Null /\ ~state.showingAnswer

\* C20: fixedOptions is a permutation of the options of the current question,
\* generated when the question becomes current, and keeps its value until
\* currentQuestionIndex changes: the selection of an answer, the timeout of the
\* countdown, a press of the pause or the speed button and the interval
\* callbacks never reshuffle or alter it.
C20_OptionsFixedPerQuestion ==
    /\ [](Mounted /\ HasCurrent(state) =>
            state.fixedOptions \in shuffleArray(CurrentQuestion(state).options))
    /\ [][~Activated /\ HasCurrent(state') =>
            state'.fixedOptions = state.fixedOptions]_vars
    /\ [][\/ \E option \in Choices : SelectAnswer(option)
          \/ togglePause
          \/ toggleSpeedLevel
          \/ Elapse
          => state'.fixedOptions = state.fixedOptions]_vars

\* The options are shown in another order than the question lists them, after
\* an answer was selected, the speed was changed and the session was paused.
C20_Witness ==
    /\ Mounted /\ HasCurrent(state)
    /\ state.fixedOptions # CurrentQuestion(state).options
    /\ state.currentAnswer # Null
    /\ state.speedLevel = 2
    /\ state.isPaused

\* The list b holds the questions of the list a: same length, same words in
\* the same order, and the options of every question of a that has options.
Kept(a, b) ==
    /\ Len(b) = Len(a)
    /\ \A i \in 1..Len(a) :
          /\ b[i].word = a[i].word
          /\ a[i].options # <<>> => b[i].options = a[i].options

\* C21: the loaded questions are fixed: the Load and every later step keep the
\* order and the words of the questions and the options of every question
\* whose options are not empty; the synthesis for a question without options
\* does not rewrite the options of another question.
C21_QuestionsFixedOnceLoaded ==
    [][/\ \A vocabulary \in Datasets :
             handleFileUpload(vocabulary) => Kept(vocabulary, state'.questions)
       /\ dataset => Kept(state.questions, state'.questions)]_vars

====
